---- MODULE Spec2Model ----
(***************************************************************************)
(* A model of the `route` attribute macro of axum-controller-macros:       *)
(* CompiledRoute::from_route binds the names of a parsed Route against the *)
(* parameters of the handler, and _route derives the generated item from   *)
(* the CompiledRoute (axum path string, extractors, remaining parameters,  *)
(* forwarding call).                                                       *)
(*                                                                         *)
(* Strings (String, LitStr values, identifier names) are sequences of      *)
(* one-character strings.  An Ident carries its name and the span it was   *)
(* created with; as in proc_macro2, two idents are equal, and hash alike,  *)
(* when their names are equal.                                             *)
(*                                                                         *)
(* The handler is an item the Rust compiler accepts: its simple parameter  *)
(* patterns bind pairwise distinct names (E0415 otherwise) and, being a    *)
(* free function, it has no receiver.  The Route is what the attribute     *)
(* parser hands over; `method` and `route_lit` pass through from_route     *)
(* untouched and are left out.                                             *)
(***************************************************************************)
EXTENDS Integers, Sequences, FiniteSets, TLC

\* ------------------------------------------------------------------ bounds
MaxArgs == 3
MaxSegs == 2
MaxQuery == 2

\* ------------------------------------------------------------- identifiers
ArgPrefix == <<"_", "_", "_", "a", "r", "g", "_", "_", "_">>

NameId == <<"i", "d">>
NameArg0 == ArgPrefix \o <<"0">>
Names == {NameId, NameArg0}

StaticTexts == {<<"h">>}

Ident(name, span) == [name |-> name, span |-> span]

\* ------------------------------------------------------------------- types
NoArguments == [kind |-> "None", args |-> <<>>]
AngleBracketed(args) == [kind |-> "AngleBracketed", args |-> args]
TypeArg(t) == [kind |-> "Type", ty |-> t]
LifetimeArg == [kind |-> "Lifetime"]
PathSegment(id, arguments) == [ident |-> id, arguments |-> arguments]
TypePath(segments) == [kind |-> "Path", segments |-> segments]

UnitType == [kind |-> "Tuple", segments |-> <<>>]
TU32 == TypePath(<<PathSegment("u32", NoArguments)>>)
TString == TypePath(<<PathSegment("String", NoArguments)>>)
AppState == TypePath(<<PathSegment("AppState", NoArguments)>>)
TState(t) == TypePath(<<PathSegment("State", AngleBracketed(<<TypeArg(t)>>))>>)
\* axum::extract::State<t>
TQualifiedState(t) ==
    TypePath(<<PathSegment("axum", NoArguments), PathSegment("extract", NoArguments),
               PathSegment("State", AngleBracketed(<<TypeArg(t)>>))>>)
\* State<'a>
TStateLifetime == TypePath(<<PathSegment("State", AngleBracketed(<<LifetimeArg>>))>>)
\* State<String, u32>
TStateTwo ==
    TypePath(<<PathSegment("State", AngleBracketed(<<TypeArg(TString), TypeArg(TU32)>>))>>)
\* &State<String>
TRefState == [kind |-> "Reference", segments |-> TState(TString).segments]

\* ------------------------------------------------------- handler and route
PatIdent(name) == [kind |-> "Ident", ident |-> Ident(name, "fn")]
\* a destructuring pattern such as `State(state)` or `Json(json)`, binding `name`
PatTupleStruct(name) == [kind |-> "TupleStruct", inner |-> name]
\* the pattern `_`
PatWild == [kind |-> "Wild"]
Typed(pat, ty) == [kind |-> "Typed", pat |-> pat, ty |-> ty]

Capture(name) ==
    [kind |-> "Capture", lit |-> name, ident |-> Ident(name, "route"), ty |-> UnitType]
WildCard(name) ==
    [kind |-> "WildCard", lit |-> name, ident |-> Ident(name, "route"), ty |-> UnitType]
Static(text) == [kind |-> "Static", lit |-> text]

None == [some |-> FALSE]
Some(v) == [some |-> TRUE, val |-> v]

SeqsUpTo(S, n) == UNION {[1..k -> S] : k \in 0..n}

IsSimple(arg) == arg.kind = "Typed" /\ arg.pat.kind = "Ident"

\* the names a parameter's pattern binds
BoundNames(arg) ==
    CASE arg.pat.kind = "Ident" -> {arg.pat.ident.name}
      [] arg.pat.kind = "TupleStruct" -> {arg.pat.inner}
      [] arg.pat.kind = "Wild" -> {}

\* rustc rejects a parameter list that binds an identifier twice (E0415)
BindingsDistinct(inputs) ==
    \A i, j \in 1..Len(inputs) :
        i # j => BoundNames(inputs[i]) \cap BoundNames(inputs[j]) = {}

Pats(names) ==
    {PatIdent(n) : n \in names} \cup {PatTupleStruct(NameId), PatWild}

Handlers(names, types) ==
    {f \in SeqsUpTo({Typed(p, t) : p \in Pats(names), t \in types}, MaxArgs) :
        BindingsDistinct(f)}

PathParams ==
    {Capture(n) : n \in Names} \cup {WildCard(n) : n \in Names}
        \cup {Static(t) : t \in StaticTexts}

Routes(states) ==
    [path_params : SeqsUpTo(PathParams, MaxSegs),
     query_params : SeqsUpTo({Ident(n, "route") : n \in Names}, MaxQuery),
     state : states]

VARIABLES
    attr,          \* the Route parsed from the attribute, as given
    function,      \* function.sig.inputs
    route,         \* from_route's `mut route`
    arg_map,       \* from_route's `arg_map`
    idx,           \* position of the running loop
    query_params,  \* from_route's `query_params`
    result,        \* what from_route returned
    generated,     \* what _route produced from the CompiledRoute
    pc

vars == <<attr, function, route, arg_map, idx, query_params, result, generated, pc>>

Max(S) == CHOOSE x \in S : \A y \in S : y <= x
Min(S) == CHOOSE x \in S : \A y \in S : x <= y

\* A faulty variant: a name bound inside a destructuring pattern is a key too.
CollectArgMapAnyPattern(inputs) ==
    LET named == {i \in 1..Len(inputs) : inputs[i].pat.kind \in {"Ident", "TupleStruct"}}
        key(i) == IF inputs[i].pat.kind = "Ident" THEN inputs[i].pat.ident.name
                  ELSE inputs[i].pat.inner
        at(n) == {i \in named : key(i) = n}
    IN  [n \in {key(i) : i \in named} |->
            [ident |-> Ident(n, "fn"), ty |-> inputs[Max(at(n))].ty]]

\* The HashMap collected from the simple-named parameters: inserting a key
\* that is already present keeps the first key and replaces the value.
CollectArgMap(inputs) ==
    LET simple == {i \in 1..Len(inputs) : IsSimple(inputs[i])}
        keys == {inputs[i].pat.ident.name : i \in simple}
        at(n) == {i \in simple : inputs[i].pat.ident.name = n}
    IN  [n \in keys |-> [ident |-> inputs[Min(at(n))].pat.ident,
                         ty |-> inputs[Max(at(n))].ty]]

\* A faulty variant: the lookup takes every other entry out with the matched one.
remove_all_entries(map, ident) == [n \in {} |-> map[n]]

\* A faulty variant: the entry is looked up and left in the map.
get_entry(map, ident) == map

remove_entry(map, ident) == [n \in DOMAIN map \ {ident.name} |-> map[n]]

RECURSIVE guess_state_scan(_, _)
guess_state_scan(inputs, i) ==
    IF i > Len(inputs) THEN UnitType
    ELSE LET arg == inputs[i]
             found ==
                 /\ arg.kind = "Typed"
                 /\ arg.ty.kind = "Path"
                 /\ arg.ty.segments[Len(arg.ty.segments)].ident = "State"
                 /\ arg.ty.segments[Len(arg.ty.segments)].arguments.kind = "AngleBracketed"
                 /\ Len(arg.ty.segments[Len(arg.ty.segments)].arguments.args) = 1
                 /\ arg.ty.segments[Len(arg.ty.segments)].arguments.args[1].kind = "Type"
         IN  IF found
             THEN arg.ty.segments[Len(arg.ty.segments)].arguments.args[1].ty
             ELSE guess_state_scan(inputs, i + 1)

\* A faulty variant: the last `State<T>` parameter wins, not the first.
RECURSIVE guess_state_scan_back(_, _)
guess_state_scan_back(inputs, i) ==
    IF i < 1 THEN UnitType
    ELSE IF guess_state_scan(inputs, i) # guess_state_scan(inputs, i + 1)
         THEN guess_state_scan(inputs, i)
         ELSE guess_state_scan_back(inputs, i - 1)

guess_state_type_last(inputs) == guess_state_scan_back(inputs, Len(inputs))

guess_state_type(inputs) == guess_state_scan(inputs, 1)

Ok(v) == [kind |-> "Ok", val |-> v]
Err(what, ident) == [kind |-> "Err", what |-> what, ident |-> ident]
Pending == [kind |-> "Pending"]

\* The Route a compilation starts from.  The attribute parser (parsing.rs)
\* rejects a path that declares a capture or wildcard name twice and a query
\* list that repeats a name; a name may occur in the path and in the query.
NoDuplicateNames(r) ==
    /\ \A i, j \in 1..Len(r.path_params) :
          (r.path_params[i].kind # "Static" /\ r.path_params[j].kind # "Static"
              /\ r.path_params[i].ident.name = r.path_params[j].ident.name) => i = j
    /\ \A i, j \in 1..Len(r.query_params) :
          r.query_params[i].name = r.query_params[j].name => i = j

ParsedRoutes(states) == {r \in Routes(states) : NoDuplicateNames(r)}

BindingTypes == {TU32, TState(TString)}

Init ==
    /\ function \in Handlers(Names, BindingTypes)
    /\ attr \in ParsedRoutes({None, Some(AppState)})
    /\ route = attr
    /\ arg_map = << >>
    /\ idx = 0
    /\ query_params = << >>
    /\ result = Pending
    /\ generated = Pending
    /\ pc = "from_route"

\* ------------------------------------------------ CompiledRoute::from_route
FromRouteStart ==
    /\ pc = "from_route"
    /\ arg_map' = CollectArgMap(function)
    /\ idx' = 1
    /\ pc' = "path_loop"
    /\ UNCHANGED <<attr, function, route, query_params, result, generated>>

\* A faulty variant: a segment whose name is not found is passed over.
BindPathParamSkipMissing ==
    LET ident == route.path_params[idx].ident
    IN  /\ IF ident.name \in DOMAIN arg_map
           THEN /\ route' = [route EXCEPT
                       !.path_params[idx].ident = arg_map[ident.name].ident,
                       !.path_params[idx].ty = arg_map[ident.name].ty]
                /\ arg_map' = remove_entry(arg_map, ident)
           ELSE UNCHANGED <<route, arg_map>>
        /\ idx' = idx + 1
        /\ UNCHANGED <<result, pc>>

\* one arm of the match on a Capture or WildCard segment
BindPathParam ==
    LET ident == route.path_params[idx].ident
    IN  IF ident.name \in DOMAIN arg_map
        THEN /\ route' = [route EXCEPT
                    !.path_params[idx].ident = arg_map[ident.name].ident,
                    !.path_params[idx].ty = arg_map[ident.name].ty]
             /\ arg_map' = remove_entry(arg_map, ident)
             /\ idx' = idx + 1
             /\ UNCHANGED <<result, pc>>
        ELSE /\ result' = Err("path parameter", ident)
             /\ pc' = "Err"
             /\ UNCHANGED <<route, arg_map, idx>>

BindCapture ==
    /\ pc = "path_loop"
    /\ idx <= Len(route.path_params)
    /\ route.path_params[idx].kind = "Capture"
    /\ BindPathParam
    /\ UNCHANGED <<attr, function, query_params, generated>>

BindWildCard ==
    /\ pc = "path_loop"
    /\ idx <= Len(route.path_params)
    /\ route.path_params[idx].kind = "WildCard"
    /\ BindPathParam
    /\ UNCHANGED <<attr, function, query_params, generated>>

SkipStatic ==
    /\ pc = "path_loop"
    /\ idx <= Len(route.path_params)
    /\ route.path_params[idx].kind = "Static"
    /\ idx' = idx + 1
    /\ UNCHANGED <<attr, function, route, arg_map, query_params, result, generated, pc>>

PathLoopDone ==
    /\ pc = "path_loop"
    /\ idx > Len(route.path_params)
    /\ query_params' = << >>
    /\ idx' = 1
    /\ pc' = "query_loop"
    /\ UNCHANGED <<attr, function, route, arg_map, result, generated>>

\* A faulty variant: a resolved query name is put in front of the earlier ones.
BindQueryFront ==
    /\ pc = "query_loop"
    /\ idx <= Len(route.query_params)
    /\ LET ident == route.query_params[idx]
       IN  IF ident.name \in DOMAIN arg_map
           THEN /\ query_params' = <<[ident |-> arg_map[ident.name].ident,
                                      ty |-> arg_map[ident.name].ty]>> \o query_params
                /\ arg_map' = remove_entry(arg_map, ident)
                /\ idx' = idx + 1
                /\ UNCHANGED <<result, pc>>
           ELSE /\ result' = Err("query parameter", ident)
                /\ pc' = "Err"
                /\ UNCHANGED <<query_params, arg_map, idx>>
    /\ UNCHANGED <<attr, function, route, generated>>

BindQuery ==
    /\ pc = "query_loop"
    /\ idx <= Len(route.query_params)
    /\ LET ident == route.query_params[idx]
       IN  IF ident.name \in DOMAIN arg_map
           THEN /\ query_params' = Append(query_params,
                        [ident |-> arg_map[ident.name].ident,
                         ty |-> arg_map[ident.name].ty])
                /\ arg_map' = remove_entry(arg_map, ident)
                /\ idx' = idx + 1
                /\ UNCHANGED <<result, pc>>
           ELSE /\ result' = Err("query parameter", ident)
                /\ pc' = "Err"
                /\ UNCHANGED <<query_params, arg_map, idx>>
    /\ UNCHANGED <<attr, function, route, generated>>

FromRouteOk ==
    /\ pc = "query_loop"
    /\ idx > Len(route.query_params)
    /\ result' = Ok([path_params |-> route.path_params,
                     query_params |-> query_params,
                     state |-> IF route.state.some THEN route.state.val
                               ELSE guess_state_type(function)])
    /\ pc' = "Ok"
    /\ UNCHANGED <<attr, function, route, arg_map, idx, query_params, generated>>

\* ------------------------------------------------- views of CompiledRoute
\* PathParam::capture
capture(param) ==
    IF param.kind \in {"Capture", "WildCard"}
    THEN Some([ident |-> param.ident, ty |-> param.ty])
    ELSE None

\* PathParam::captures
captures(param) == param.kind \in {"Capture", "WildCard"}

\* A faulty variant: the route's own `:name` and `*name` notation is emitted.
push_segment_colon(path, param) ==
    LET slashed == Append(path, "/")
    IN  CASE param.kind = "Capture" -> (slashed \o <<":">>) \o param.lit
          [] param.kind = "WildCard" -> (slashed \o <<"*">>) \o param.lit
          [] param.kind = "Static" -> slashed \o param.lit

push_segment(path, param) ==
    LET slashed == Append(path, "/")
    IN  CASE param.kind = "Capture" -> (slashed \o <<"{">>) \o param.lit \o <<"}">>
          [] param.kind = "WildCard" -> (slashed \o <<"{", "*">>) \o param.lit \o <<"}">>
          [] param.kind = "Static" -> slashed \o param.lit

RECURSIVE push_segments(_, _, _)
push_segments(path, params, i) ==
    IF i > Len(params) THEN path
    ELSE push_segments(push_segment(path, params[i]), params, i + 1)

to_axum_path_string(self) == push_segments(<< >>, self.path_params, 1)

RECURSIVE captured_from(_, _)
\* path_params.iter().filter_map(|(_slash, path_param)| path_param.capture())
captured_from(params, i) ==
    IF i > Len(params) THEN << >>
    ELSE LET o == capture(params[i])
         IN  (IF o.some THEN <<o.val>> ELSE << >>) \o captured_from(params, i + 1)

captured(self) == captured_from(self.path_params, 1)

path_extractor(self) ==
    IF ~ \E i \in 1..Len(self.path_params) : captures(self.path_params[i])
    THEN None
    ELSE Some([idents |-> [i \in 1..Len(captured(self)) |-> captured(self)[i].ident],
               types |-> [i \in 1..Len(captured(self)) |-> captured(self)[i].ty]])

query_extractor(self) ==
    IF self.query_params = << >>
    THEN None
    ELSE Some([idents |-> [i \in 1..Len(self.query_params) |-> self.query_params[i].ident]])

query_params_struct(self) ==
    IF self.query_params = << >>
    THEN None
    ELSE Some([fields |-> self.query_params])

\* A faulty variant: the query identifiers come first.
extracted_idents_query_first(self) ==
    [i \in 1..Len(self.query_params) |-> self.query_params[i].ident]
        \o [i \in 1..Len(captured(self)) |-> captured(self)[i].ident]

extracted_idents(self) ==
    [i \in 1..Len(captured(self)) |-> captured(self)[i].ident]
        \o [i \in 1..Len(self.query_params) |-> self.query_params[i].ident]

DigitChars == <<"0", "1", "2", "3", "4", "5", "6", "7", "8", "9">>

RECURSIVE Decimal(_)
Decimal(n) ==
    IF n < 10 THEN <<DigitChars[n + 1]>>
    ELSE Decimal(n \div 10) \o <<DigitChars[(n % 10) + 1]>>

\* A faulty variant: the parameters are numbered from one.
numbered_ident_from_one(i) == Ident(ArgPrefix \o Decimal(i + 1), "call_site")

\* format_ident!("___arg___{}", i)
numbered_ident(i) == Ident(ArgPrefix \o Decimal(i), "call_site")

\* the closure of remaining_pattypes_numbered, on the argument at (0-based) index i
remaining_one(self, i, item) ==
    IF /\ item.pat.kind = "Ident"
       /\ \/ \E k \in 1..Len(self.path_params) :
                /\ capture(self.path_params[k]).some
                /\ capture(self.path_params[k]).val.ident.name = item.pat.ident.name
          \/ \E k \in 1..Len(self.query_params) :
                self.query_params[k].ident.name = item.pat.ident.name
    THEN None
    ELSE Some(Typed([kind |-> "Ident", ident |-> numbered_ident(i)], item.ty))

RECURSIVE remaining_from(_, _, _)
remaining_from(self, args, k) ==
    IF k > Len(args) THEN << >>
    ELSE LET o == remaining_one(self, k - 1, args[k])
         IN  (IF o.some THEN <<o.val>> ELSE << >>) \o remaining_from(self, args, k + 1)

remaining_pattypes_numbered(self, args) == remaining_from(self, args, 1)

\* ------------------------------------------------------------------ _route
\* `#fn_name(#(#extracted_idents,)* #(#remaining_numbered_idents,)*)`
forwarding_call(extracted, remaining) ==
    extracted \o [i \in 1..Len(remaining) |-> remaining[i].pat.ident]

\* the identifiers bound by the parameters of __inner__function__: the Path tuple
\* pattern, the __QueryParams__ struct pattern, then the numbered parameters
inner_bindings(self, remaining) ==
    (IF path_extractor(self).some THEN path_extractor(self).val.idents ELSE << >>)
        \o (IF query_extractor(self).some THEN query_extractor(self).val.idents ELSE << >>)
        \o [i \in 1..Len(remaining) |-> remaining[i].pat.ident]

Generate ==
    /\ pc = "Ok"
    /\ LET self == result.val
           remaining_numbered_pats == remaining_pattypes_numbered(self, function)
       IN  generated' =
               [kind |-> "Item",
                path_extractor |-> path_extractor(self),
                query_extractor |-> query_extractor(self),
                query_params_struct |-> query_params_struct(self),
                state_type |-> self.state,
                axum_path |-> to_axum_path_string(self),
                remaining_numbered_pats |-> remaining_numbered_pats,
                extracted_idents |-> extracted_idents(self),
                inner_bindings |-> inner_bindings(self, remaining_numbered_pats),
                call |-> forwarding_call(extracted_idents(self), remaining_numbered_pats)]
    /\ pc' = "generated"
    /\ UNCHANGED <<attr, function, route, arg_map, idx, query_params, result>>

\* route: on Err the item is returned with the compile error appended
CompileError ==
    /\ pc = "Err"
    /\ generated' = [kind |-> "CompileError", what |-> result.what, ident |-> result.ident]
    /\ pc' = "compile_error"
    /\ UNCHANGED <<attr, function, route, arg_map, idx, query_params, result>>

Next ==
    \/ FromRouteStart
    \/ BindCapture
    \/ BindWildCard
    \/ SkipStatic
    \/ PathLoopDone
    \/ BindQuery
    \/ FromRouteOk
    \/ Generate
    \/ CompileError

Spec == Init /\ [][Next]_vars

\* ---------------------------------------------- state-type specification
\* The same compilation, started from handlers whose parameter types cover
\* the shapes guess_state_type tells apart, and from routes with and without
\* an explicit state type.
StateTypes ==
    {TU32, TState(TString), TQualifiedState(TU32), TStateLifetime, TStateTwo, TRefState}

StateRoutes ==
    [path_params : {<< >>, <<Capture(NameId)>>, <<Static(<<"h">>), WildCard(NameId)>>},
     query_params : {<< >>, <<Ident(NameId, "route")>>},
     state : {None, Some(AppState)}]

InitState ==
    /\ function \in Handlers({NameId}, StateTypes)
    /\ attr \in StateRoutes
    /\ route = attr
    /\ arg_map = << >>
    /\ idx = 0
    /\ query_params = << >>
    /\ result = Pending
    /\ generated = Pending
    /\ pc = "from_route"

SpecState == InitState /\ [][Next]_vars

\* ------------------------------------------------- binding specification
\* The same compilation from routes that give no explicit state type: the
\* state type plays no part in how names are looked up.
InitBind ==
    /\ function \in Handlers(Names, BindingTypes)
    /\ attr \in ParsedRoutes({None})
    /\ route = attr
    /\ arg_map = << >>
    /\ idx = 0
    /\ query_params = << >>
    /\ result = Pending
    /\ generated = Pending
    /\ pc = "from_route"

SpecBind == InitBind /\ [][Next]_vars

\* ------------------------------------------------------------- properties
Returned == result.kind # "Pending"
Compiled == result.kind = "Ok"

CaptureIndices(r) == {i \in 1..Len(r.path_params) : r.path_params[i].kind # "Static"}
PathNames(r) == {r.path_params[i].ident.name : i \in CaptureIndices(r)}
QueryNames(r) == {r.query_params[i].name : i \in 1..Len(r.query_params)}
SimpleNames(inputs) ==
    {inputs[i].pat.ident.name : i \in {j \in 1..Len(inputs) : IsSimple(inputs[j])}}

\* the parameter of the handler that is declared with the simple name n
ParamNamed(inputs, n) ==
    inputs[CHOOSE i \in 1..Len(inputs) : IsSimple(inputs[i]) /\ inputs[i].pat.ident.name = n]

\* the k-th smallest element of a set of numbers
RECURSIVE Nth(_, _)
Nth(S, k) == IF k = 1 THEN Min(S) ELSE Nth(S \ {Min(S)}, k - 1)

NameSeq(idents) == [i \in 1..Len(idents) |-> idents[i].name]

\* C1: a name declared by the path and by the query is bound by the path segment,
\* and the query lookup of that name then fails: when every path name and every
\* query name ahead of it resolves, from_route returns the error "query parameter
\* `<name>` not found" for it.
C1_PathBindsBeforeQuery ==
    Returned =>
        \A q \in 1..Len(attr.query_params) :
            ( /\ attr.query_params[q].name \in PathNames(attr)
              /\ PathNames(attr) \subseteq SimpleNames(function)
              /\ \A j \in 1..(q - 1) :
                    attr.query_params[j].name \in SimpleNames(function) \ PathNames(attr) )
            => /\ result = Err("query parameter", attr.query_params[q])
               /\ \E i \in CaptureIndices(route) :
                     /\ route.path_params[i].ident.name = attr.query_params[q].name
                     /\ route.path_params[i].ident.span = "fn"
                     /\ route.path_params[i].ty
                            = ParamNamed(function, attr.query_params[q].name).ty

C1_Witness ==
    /\ pc = "Err"
    /\ attr.path_params = <<Static(<<"h">>), Capture(NameId)>>
    /\ attr.query_params = <<Ident(NameId, "route")>>
    /\ function = <<Typed(PatIdent(NameId), TU32)>>
    /\ result = Err("query parameter", Ident(NameId, "route"))
    /\ route.path_params[2].ty = TU32

\* C2: from_route fails whenever a Capture, WildCard or query name of the route
\* has no simple-named handler parameter; the error names a name of the route,
\* of the kind it reports (path or query parameter), that has no simple-named
\* parameter left: none at all, or (query only) one the path already consumed.
\* A name bound only inside a destructuring pattern does not count.
C2_MissingNameFails ==
    Returned =>
        /\ (PathNames(attr) \cup QueryNames(attr)) \ SimpleNames(function) # {}
              => result.kind = "Err"
        /\ result.kind = "Err" =>
              /\ result.what \in {"path parameter", "query parameter"}
              /\ result.what = "path parameter" =>
                    /\ result.ident.name \in PathNames(attr)
                    /\ result.ident.name \notin SimpleNames(function)
              /\ result.what = "query parameter" =>
                    /\ result.ident.name \in QueryNames(attr)
                    /\ \/ result.ident.name \notin SimpleNames(function)
                       \/ result.ident.name \in PathNames(attr)

\* the route names `id`, the handler binds `id` only inside `State(id)`
C2_Witness ==
    /\ pc = "Err"
    /\ attr.path_params = <<Capture(NameId)>>
    /\ attr.query_params = << >>
    /\ function = <<Typed(PatTupleStruct(NameId), TState(TString)),
                    Typed(PatIdent(NameArg0), TU32)>>
    /\ result = Err("path parameter", Ident(NameId, "route"))

\* the type is written as a path whose last segment is `State<..>` with one argument
OneArgumentState(arg) ==
    /\ arg.ty.kind = "Path"
    /\ arg.ty.segments[Len(arg.ty.segments)].ident = "State"
    /\ arg.ty.segments[Len(arg.ty.segments)].arguments.kind = "AngleBracketed"
    /\ Len(arg.ty.segments[Len(arg.ty.segments)].arguments.args) = 1

TheArgument(arg) == arg.ty.segments[Len(arg.ty.segments)].arguments.args[1]

StateParams(inputs) == {i \in 1..Len(inputs) : OneArgumentState(inputs[i])}
StateTypeParams(inputs) ==
    {i \in StateParams(inputs) : TheArgument(inputs[i]).kind = "Type"}

\* C3 as stated: the state type is the explicit one, else the generic argument of
\* the first parameter whose type is a one-argument generic named State, else ().
C3_StateTypeAsStated ==
    Compiled =>
        IF attr.state.some THEN result.val.state = attr.state.val
        ELSE IF StateParams(function) # {}
        THEN /\ TheArgument(function[Min(StateParams(function))]).kind = "Type"
             /\ result.val.state = TheArgument(function[Min(StateParams(function))]).ty
        ELSE result.val.state = UnitType

\* C3 (amended): the state type is the explicit one when the route gives one; else
\* the generic argument of the first parameter, in declaration order, whose type is
\* a one-argument generic named State whose argument is a type (a parameter written
\* `State<'a>` is passed over); else (). Consumed parameters count like the others.
C3_StateType ==
    Compiled =>
        IF attr.state.some THEN result.val.state = attr.state.val
        ELSE IF StateTypeParams(function) # {}
        THEN result.val.state = TheArgument(function[Min(StateTypeParams(function))]).ty
        ELSE result.val.state = UnitType

\* `(_: State<'a>, id: axum::extract::State<u32>, _: State<String>)` on `/:id`:
\* the second parameter, consumed by the path, gives the state type
C3_Witness ==
    /\ pc = "Ok"
    /\ attr.state = None
    /\ attr.path_params = <<Capture(NameId)>>
    /\ function = <<Typed(PatWild, TStateLifetime),
                    Typed(PatIdent(NameId), TQualifiedState(TU32)),
                    Typed(PatWild, TState(TString))>>
    /\ result.val.state = TU32

\* splitting a string at its `/` characters
SlashPositions(str) == {i \in 1..Len(str) : str[i] = "/"}
Piece(str, k) ==
    LET from == Nth(SlashPositions(str), k)
        to == IF k = Cardinality(SlashPositions(str)) THEN Len(str) + 1
              ELSE Nth(SlashPositions(str), k + 1)
    IN  SubSeq(str, from + 1, to - 1)

Rendered(param) ==
    CASE param.kind = "Static" -> param.lit
      [] param.kind = "Capture" -> <<"{">> \o param.lit \o <<"}">>
      [] param.kind = "WildCard" -> <<"{", "*">> \o param.lit \o <<"}">>

\* C4: for a route with at least one segment the axum path starts with `/`, has
\* one `/` per segment, and the text after the k-th `/` is the k-th segment's
\* literal text, `{name}` or `{*name}`; nothing of the query is in it.
C4_AxumPath ==
    (pc = "generated" /\ Len(attr.path_params) >= 1) =>
        /\ generated.axum_path[1] = "/"
        /\ Cardinality(SlashPositions(generated.axum_path)) = Len(attr.path_params)
        /\ \A k \in 1..Len(attr.path_params) :
              Piece(generated.axum_path, k) = Rendered(attr.path_params[k])

\* `/h/{id}` for `/h/:id?___arg___0`
C4_Witness ==
    /\ pc = "generated"
    /\ attr.path_params = <<Static(<<"h">>), Capture(NameId)>>
    /\ attr.query_params = <<Ident(NameArg0, "route")>>
    /\ generated.axum_path = <<"/", "h", "/", "{", "i", "d", "}">>

\* C5: a route with zero segments yields the path string `/`.
C5_EmptyRouteIsSlash ==
    (pc = "generated" /\ attr.path_params = << >>) => generated.axum_path = <<"/">>

\* the capture and wildcard names of a route in path order, then its query names
RECURSIVE PathNameSeq(_, _)
PathNameSeq(params, i) ==
    IF i > Len(params) THEN << >>
    ELSE (IF params[i].kind = "Static" THEN << >> ELSE <<params[i].ident.name>>)
             \o PathNameSeq(params, i + 1)

BindingOrder(r) == PathNameSeq(r.path_params, 1) \o NameSeq(r.query_params)

\* C6: extracted_idents is the path-bound names in path order followed by the
\* query-bound names in declared order, whatever order the handler declares them in.
C6_ExtractionOrder ==
    pc = "generated" => NameSeq(generated.extracted_idents) = BindingOrder(attr)

\* `/:id?___arg___0` against `(_, ___arg___0, id)` gives `[id, ___arg___0]`
C6_Witness ==
    /\ pc = "generated"
    /\ attr.path_params = <<Capture(NameId)>>
    /\ attr.query_params = <<Ident(NameArg0, "route")>>
    /\ function = <<Typed(PatWild, TState(TString)), Typed(PatIdent(NameArg0), TU32),
                    Typed(PatIdent(NameId), TU32)>>
    /\ NameSeq(generated.extracted_idents) = <<NameId, NameArg0>>
    /\ Len(generated.remaining_numbered_pats) = 1

\* the (1-based) positions of the parameters no path or query binding consumed
Unconsumed(r, inputs) ==
    {i \in 1..Len(inputs) :
        ~ (IsSimple(inputs[i])
              /\ inputs[i].pat.ident.name \in PathNames(r) \cup QueryNames(r))}

\* C7: remaining_pattypes_numbered is exactly the unconsumed parameters, in their
\* original order, each with its original type and the name `___arg___<i>`, i its
\* 0-based index in the handler's parameter list; a parameter with a non-simple
\* pattern is always among them.
C7_Remaining ==
    pc = "generated" =>
        LET rem == generated.remaining_numbered_pats
            keep == Unconsumed(attr, function)
        IN  /\ Len(rem) = Cardinality(keep)
            /\ \A k \in 1..Len(rem) :
                  /\ rem[k].ty = function[Nth(keep, k)].ty
                  /\ rem[k].pat.kind = "Ident"
                  /\ rem[k].pat.ident.name = ArgPrefix \o <<DigitChars[Nth(keep, k)]>>
            /\ \A i \in 1..Len(function) : ~ IsSimple(function[i]) => i \in keep

\* `/:id` against `(_: State<String>, id: u32, ___arg___0: u32)` leaves
\* parameters 0 and 2, under the names `___arg___0` and `___arg___2`
C7_Witness ==
    /\ pc = "generated"
    /\ attr.path_params = <<Capture(NameId)>>
    /\ attr.query_params = << >>
    /\ function = <<Typed(PatWild, TState(TString)), Typed(PatIdent(NameId), TU32),
                    Typed(PatIdent(NameArg0), TU32)>>
    /\ generated.remaining_numbered_pats =
           <<Typed([kind |-> "Ident", ident |-> Ident(ArgPrefix \o <<"0">>, "call_site")],
                   TState(TString)),
             Typed([kind |-> "Ident", ident |-> Ident(ArgPrefix \o <<"2">>, "call_site")],
                   TU32)>>

\* C8: the names of the remaining parameters are pairwise distinct and distinct
\* from every extracted identifier: __inner__function__ binds no name twice.
C8_NoCollision ==
    pc = "generated" =>
        \A i, j \in 1..Len(generated.inner_bindings) :
            generated.inner_bindings[i].name = generated.inner_bindings[j].name => i = j

\* C9: binding keeps the order: the CompiledRoute has the Route's segments (same
\* length, kinds, literals and names, in order), and its query bindings are the
\* Route's query names in order, each with the type of the handler parameter of
\* that name.
C9_OrderPreserved ==
    Compiled =>
        /\ Len(result.val.path_params) = Len(attr.path_params)
        /\ \A i \in 1..Len(attr.path_params) :
              /\ result.val.path_params[i].kind = attr.path_params[i].kind
              /\ result.val.path_params[i].lit = attr.path_params[i].lit
              /\ attr.path_params[i].kind # "Static" =>
                    /\ result.val.path_params[i].ident.name = attr.path_params[i].ident.name
                    /\ result.val.path_params[i].ty
                           = ParamNamed(function, attr.path_params[i].ident.name).ty
        /\ Len(result.val.query_params) = Len(attr.query_params)
        /\ \A i \in 1..Len(attr.query_params) :
              /\ result.val.query_params[i].ident.name = attr.query_params[i].name
              /\ result.val.query_params[i].ty
                     = ParamNamed(function, attr.query_params[i].name).ty

\* `/h?___arg___0&id`: two query names of different types, declared in the
\* order opposite to the handler's
C9_Witness ==
    /\ pc = "Ok"
    /\ attr.path_params = <<Static(<<"h">>)>>
    /\ attr.query_params = <<Ident(NameArg0, "route"), Ident(NameId, "route")>>
    /\ function = <<Typed(PatIdent(NameId), TU32),
                    Typed(PatIdent(NameArg0), TState(TString))>>
    /\ result.val.query_params =
           <<[ident |-> Ident(NameArg0, "fn"), ty |-> TState(TString)],
             [ident |-> Ident(NameId, "fn"), ty |-> TU32]>>

\* what the handler's parameter at (1-based) position p must receive: the value
\* extracted under its own name, or the forwarded argument numbered p - 1
Belongs(r, inputs, p) ==
    IF p \in Unconsumed(r, inputs) THEN ArgPrefix \o Decimal(p - 1)
    ELSE inputs[p].pat.ident.name

\* C10: the forwarding call passes, at every parameter position of the handler,
\* the value that belongs to that parameter.
C10_CallMatchesParameters ==
    pc = "generated" =>
        /\ Len(generated.call) = Len(function)
        /\ \A p \in 1..Len(function) :
              generated.call[p].name = Belongs(attr, function, p)

\* the names bound so far: the captures the path loop has rewritten (they carry
\* the handler's ident), in path order, then the query bindings pushed so far
RECURSIVE BoundPathSeq(_, _)
BoundPathSeq(params, i) ==
    IF i > Len(params) THEN << >>
    ELSE (IF params[i].kind # "Static" /\ params[i].ident.span = "fn"
          THEN <<params[i].ident.name>> ELSE << >>) \o BoundPathSeq(params, i + 1)

BoundSoFar ==
    BoundPathSeq(route.path_params, 1)
        \o [i \in 1..Len(query_params) |-> query_params[i].ident.name]

\* the entry from_route's map holds for the simple-named parameter n
EntryOf(n) == [ident |-> ParamNamed(function, n).pat.ident, ty |-> ParamNamed(function, n).ty]

C11_Bindings ==
    pc # "from_route" =>
        /\ \A i, j \in 1..Len(BoundSoFar) : BoundSoFar[i] = BoundSoFar[j] => i = j
        /\ \A i \in 1..Len(BoundSoFar) : BoundSoFar[i] \notin DOMAIN arg_map
        /\ {BoundSoFar[i] : i \in 1..Len(BoundSoFar)} \cup DOMAIN arg_map
               = SimpleNames(function)
        /\ \A n \in DOMAIN arg_map : arg_map[n] = EntryOf(n)

C11_Lookup ==
    pc # "from_route" =>
        /\ DOMAIN arg_map' \subseteq DOMAIN arg_map
        /\ \A n \in DOMAIN arg_map' : arg_map'[n] = arg_map[n]
        /\ DOMAIN arg_map' # DOMAIN arg_map =>
              /\ pc \in {"path_loop", "query_loop"}
              /\ idx' = idx + 1
              /\ DOMAIN arg_map \ DOMAIN arg_map' =
                     {IF pc = "path_loop" THEN route.path_params[idx].ident.name
                      ELSE route.query_params[idx].name}

\* C11: throughout from_route no handler parameter is bound twice: the names bound
\* so far are pairwise distinct, none of them is still in the pool, bound names and
\* pool together are the handler's simple-named parameters, and every entry left in
\* the pool is as collected; a step never adds to the pool, and a successful lookup
\* takes out exactly the entry of the name looked up.
C11_PoolConsumption == []C11_Bindings /\ [][C11_Lookup]_vars

\* `/:id?___arg___0` against `(___arg___0: State<String>, _: u32, id: u32)`, after
\* the path loop: `id` is bound, `___arg___0` is still in the pool, untouched
C11_Witness ==
    /\ pc = "query_loop"
    /\ idx = 1
    /\ attr.path_params = <<Capture(NameId)>>
    /\ attr.query_params = <<Ident(NameArg0, "route")>>
    /\ function = <<Typed(PatIdent(NameArg0), TState(TString)), Typed(PatWild, TU32),
                    Typed(PatIdent(NameId), TU32)>>
    /\ BoundSoFar = <<NameId>>
    /\ DOMAIN arg_map = {NameArg0}
    /\ arg_map[NameArg0] = [ident |-> Ident(NameArg0, "fn"), ty |-> TState(TString)]

\* the positions, in binding order, of the names whose lookup cannot succeed: no
\* simple-named parameter has the name, or an earlier lookup took it
FailingLookups ==
    {k \in 1..Len(BindingOrder(attr)) :
        \/ BindingOrder(attr)[k] \notin SimpleNames(function)
        \/ \E j \in 1..(k - 1) : BindingOrder(attr)[j] = BindingOrder(attr)[k]}

C12_FirstFailure ==
    Returned =>
        IF FailingLookups = {} THEN result.kind = "Ok"
        ELSE LET k == Min(FailingLookups)
             IN  /\ result.kind = "Err"
                 /\ result.ident.name = BindingOrder(attr)[k]
                 /\ result.what = IF k <= Len(PathNameSeq(attr.path_params, 1))
                                  THEN "path parameter" ELSE "query parameter"
                 /\ BoundSoFar = SubSeq(BindingOrder(attr), 1, k - 1)
                 /\ DOMAIN arg_map =
                        SimpleNames(function) \ {BindingOrder(attr)[j] : j \in 1..(k - 1)}
                 /\ generated.kind # "Item"

C12_Stops ==
    result.kind = "Err" =>
        /\ result' = result
        /\ arg_map' = arg_map
        /\ route' = route
        /\ query_params' = query_params
        /\ idx' = idx

\* C12: binding is sequential and fails atomically: from_route returns Ok only when
\* every lookup succeeds; otherwise it returns the error of the first failing lookup
\* in binding order (path names in path order, then query names), of that kind and
\* name, with exactly the earlier names bound and no later name looked up; once it
\* has failed nothing more is bound, the result stays the error, and no item is
\* generated from a CompiledRoute.
C12_FailFast == []C12_FirstFailure /\ [][C12_Stops]_vars

\* `/:___arg___0/:id?id` against `(___arg___0: u32)`: `___arg___0` is bound, the
\* path name `id` fails, and the query name `id`, missing too, is never looked up
C12_Witness ==
    /\ pc = "compile_error"
    /\ attr.path_params = <<Capture(NameArg0), Capture(NameId)>>
    /\ attr.query_params = <<Ident(NameId, "route")>>
    /\ function = <<Typed(PatIdent(NameArg0), TU32)>>
    /\ result = Err("path parameter", Ident(NameId, "route"))
    /\ FailingLookups = {2, 3}
    /\ idx = 2
    /\ query_params = << >>
    /\ generated.kind = "CompileError"
====
